---- MODULE Spec2Model ----
(***************************************************************************)
(* The Bravyi-Kitaev transform of fermilib/transforms/_bravyi_kitaev.py.   *)
(*                                                                         *)
(* bravyi_kitaev is modelled as a state machine: one action per statement  *)
(* of the function and per iteration of the two folds (inline_sum over the *)
(* terms of the operator, inline_product over the ladder operators of one  *)
(* term).  The collaborators the file imports and does not define          *)
(* (FenwickTree, QubitOperator, count_qubits) are modelled from their      *)
(* description in the specification of the repository.                     *)
(***************************************************************************)
EXTENDS Integers, Sequences, FiniteSets, TLC

(***************************************************************************)
(* Bounds of the checked inputs.                                           *)
(***************************************************************************)
\* Modes of the input operators are 0 .. MaxModes - 1.
MaxModes == 3
\* Longest term (number of ladder operators) of an input operator.
MaxTermLen == 2
\* Largest tree of the single-ladder-operator and anticommutator checks.
MaxTree == 8
\* Modes of the operators of the linearity check are 0 .. LinModes - 1.
LinModes == 2

(***************************************************************************)
(* Complex coefficients.  Every coefficient the transform produces is a    *)
(* Gaussian integer over a power of two (0.5 and 0.5j multiplied at most   *)
(* MaxTermLen times into an integer coefficient), which Python's floats    *)
(* hold exactly.  A coefficient z is kept as <<Re(z)*Scale, Im(z)*Scale>>. *)
(***************************************************************************)
RECURSIVE Pow2(_)
Pow2(k) == IF k = 0 THEN 1 ELSE 2 * Pow2(k - 1)

Scale == Pow2(MaxTermLen)

Complex(re, im) == <<re * Scale, im * Scale>>

CZero == <<0, 0>>
COne == Complex(1, 0)
CI == Complex(0, 1)
CHalf == <<Scale \div 2, 0>>
CHalfI == <<0, Scale \div 2>>

CNeg(a) == <<-a[1], -a[2]>>

CAdd(a, b) == <<a[1] + b[1], a[2] + b[2]>>

CMul(a, b) ==
    <<(a[1] * b[1] - a[2] * b[2]) \div Scale,
      (a[1] * b[2] + a[2] * b[1]) \div Scale>>

(***************************************************************************)
(* QubitOperator: a mapping from Pauli term to coefficient.  A Pauli term  *)
(* is a tuple of <<qubit index, letter>> pairs sorted by qubit index; the  *)
(* empty tuple is the identity.                                            *)
(***************************************************************************)
Letters == {"X", "Y", "Z"}

\* The single-qubit Pauli algebra: the product of two letters on one qubit.
PauliProduct(a, b) ==
    CASE a = b -> [scalar |-> COne, op |-> "I"]
      [] a = "X" /\ b = "Y" -> [scalar |-> CI, op |-> "Z"]
      [] a = "Y" /\ b = "X" -> [scalar |-> CNeg(CI), op |-> "Z"]
      [] a = "Y" /\ b = "Z" -> [scalar |-> CI, op |-> "X"]
      [] a = "Z" /\ b = "Y" -> [scalar |-> CNeg(CI), op |-> "X"]
      [] a = "Z" /\ b = "X" -> [scalar |-> CI, op |-> "Y"]
      [] a = "X" /\ b = "Z" -> [scalar |-> CNeg(CI), op |-> "Y"]

\* sorted(term, key = qubit index): a stable insertion sort.
RECURSIVE InsertByIndex(_, _)
InsertByIndex(sorted, e) ==
    IF sorted = <<>> THEN <<e>>
    ELSE IF e[1] < Head(sorted)[1] THEN <<e>> \o sorted
    ELSE <<Head(sorted)>> \o InsertByIndex(Tail(sorted), e)

RECURSIVE SortByIndex(_)
SortByIndex(term) ==
    IF term = <<>> THEN <<>>
    ELSE InsertByIndex(SortByIndex(SubSeq(term, 1, Len(term) - 1)), term[Len(term)])

\* QubitOperator(): the zero operator, with no terms.
QubitOperatorZero == <<>>

\* QubitOperator(term, coefficient): one Pauli term, its pairs sorted by index.
QubitOperator(term, coefficient) ==
    [t \in {SortByIndex(term)} |-> coefficient]

\* The terms of an operator with a nonzero coefficient.
DropZeros(q) ==
    [t \in {u \in DOMAIN q : q[u] # CZero} |-> q[t]]

CoefficientOf(q, t) == IF t \in DOMAIN q THEN q[t] ELSE CZero

\* a += b: equal Pauli terms merge, their coefficients summed.
QAdd(a, b) ==
    DropZeros([t \in (DOMAIN a) \cup (DOMAIN b) |->
                  CAdd(CoefficientOf(a, t), CoefficientOf(b, t))])

\* The product of two Pauli terms: a merge of the two sorted tuples that
\* multiplies the letters meeting on one qubit.
RECURSIVE MergeTerms(_, _)
MergeTerms(l, r) ==
    IF l = <<>> THEN [ops |-> r, scalar |-> COne]
    ELSE IF r = <<>> THEN [ops |-> l, scalar |-> COne]
    ELSE IF Head(l)[1] = Head(r)[1] THEN
        LET p == PauliProduct(Head(l)[2], Head(r)[2])
            rest == MergeTerms(Tail(l), Tail(r))
        IN  [ops |-> IF p.op = "I" THEN rest.ops
                     ELSE <<(<<Head(l)[1], p.op>>)>> \o rest.ops,
             scalar |-> CMul(p.scalar, rest.scalar)]
    ELSE IF Head(l)[1] > Head(r)[1] THEN
        LET rest == MergeTerms(l, Tail(r))
        IN  [ops |-> <<Head(r)>> \o rest.ops, scalar |-> rest.scalar]
    ELSE
        LET rest == MergeTerms(Tail(l), r)
        IN  [ops |-> <<Head(l)>> \o rest.ops, scalar |-> rest.scalar]

RECURSIVE SumCoefficients(_, _, _, _)
SumCoefficients(a, b, key, pairs) ==
    IF pairs = {} THEN CZero
    ELSE LET p == CHOOSE x \in pairs : TRUE
             m == MergeTerms(p[1], p[2])
             c == IF m.ops = key
                  THEN CMul(CMul(a[p[1]], b[p[2]]), m.scalar)
                  ELSE CZero
         IN  CAdd(c, SumCoefficients(a, b, key, pairs \ {p}))

\* a *= b: every term of a times every term of b, a on the left.
QMul(a, b) ==
    LET pairs == (DOMAIN a) \X (DOMAIN b)
        keys == {MergeTerms(p[1], p[2]).ops : p \in pairs}
    IN  DropZeros([k \in keys |-> SumCoefficients(a, b, k, pairs)])

(***************************************************************************)
(* FenwickTree(n_qubits): the Bravyi-Kitaev tree over the indices          *)
(* 0 .. n_qubits - 1, kept as the parent of every node (-1: no parent).    *)
(* The root is the last index; the range [left, right) below a parent is   *)
(* split at its midpoint, the midpoint becoming a child of the parent and  *)
(* the parent of the left half.                                            *)
(***************************************************************************)
NoParent == -1

RECURSIVE fenwick(_, _, _)
fenwick(left, right, parent) ==
    IF left >= right THEN {}
    ELSE LET pivot == (left + right) \div 2
         IN  {<<pivot, parent>>}
               \cup fenwick(left, pivot, pivot)
               \cup fenwick(pivot + 1, right, parent)

FenwickTree(n) ==
    LET edges == fenwick(0, n - 1, n - 1)
    IN  [n |-> n,
         parent |-> [j \in 0 .. n - 1 |->
                        IF \E e \in edges : e[1] = j
                        THEN (CHOOSE e \in edges : e[1] = j)[2]
                        ELSE NoParent]]

\* The tree before line 45 has run.
NoTree == [n |-> -1, parent |-> <<>>]

\* A set of indices as the increasing sequence of its elements.
RECURSIVE Ascending(_)
Ascending(S) ==
    IF S = {} THEN <<>>
    ELSE LET m == CHOOSE a \in S : \A b \in S : a <= b
         IN  <<m>> \o Ascending(S \ {m})

\* The children of node j, in the order the construction appends them.
get_children_set(tree, j) ==
    Ascending({c \in DOMAIN tree.parent : tree.parent[c] = j})

\* The ancestors of node j, from its parent up to the root.
RECURSIVE get_update_set(_, _)
get_update_set(tree, j) ==
    IF tree.parent[j] = NoParent THEN <<>>
    ELSE <<tree.parent[j]>> \o get_update_set(tree, tree.parent[j])

RECURSIVE ChildrenBelow(_, _, _)
ChildrenBelow(tree, ancestors, j) ==
    IF ancestors = <<>> THEN <<>>
    ELSE SelectSeq(get_children_set(tree, Head(ancestors)), LAMBDA c : c < j)
           \o ChildrenBelow(tree, Tail(ancestors), j)

\* The children, with an index below j, of the ancestors of j.
get_remainder_set(tree, j) ==
    ChildrenBelow(tree, get_update_set(tree, j), j)

\* The remainder set of j followed by the children of j.
get_parity_set(tree, j) ==
    get_remainder_set(tree, j) \o get_children_set(tree, j)

\* A query for an index the tree has no node for fails.
InRange(tree, j) == j \in DOMAIN tree.parent

(***************************************************************************)
(* FermionOperator: a mapping from term to coefficient; a term is a tuple  *)
(* of ladder operators <<mode, action>>, action 1 raising and 0 lowering.  *)
(***************************************************************************)
Raise == 1
Lower == 0

\* count_qubits(operator): the highest mode of the operator, plus one.
count_qubits(operator) ==
    LET modes == UNION {{t[k][1] : k \in DOMAIN t} : t \in DOMAIN operator}
    IN  IF modes = {} THEN 0
        ELSE (CHOOSE m \in modes : \A o \in modes : o <= m) + 1

(***************************************************************************)
(* _transform_ladder_operator (lines 77-116).                              *)
(***************************************************************************)
\* tuple((index, letter) for index in indices)
Tagged(indices, letter) == [k \in 1 .. Len(indices) |-> <<indices[k], letter>>]

\* Mutant: the two signs of line 100 are exchanged.
d_coefficient_exchanged(ladder_operator) ==
    IF ladder_operator[2] # 0 THEN CHalfI ELSE CNeg(CHalfI)

\* Mutant: the action is ignored, every ladder operator taken as lowering.
d_coefficient_lowering(ladder_operator) == CHalfI

\* Line 100: the coefficient of the d component.
d_coefficient(ladder_operator) ==
    IF ladder_operator[2] # 0 THEN CNeg(CHalfI) ELSE CHalfI

\* Mutant: the d component takes its Z string from the parity set.
d_majorana_tuple_parity(ladder_operator, fenwick_tree) ==
    <<(<<ladder_operator[1], "Y">>)>>
      \o Tagged(get_parity_set(fenwick_tree, ladder_operator[1]), "Z")
      \o Tagged(get_update_set(fenwick_tree, ladder_operator[1]), "X")

\* Lines 105-107: the tuple the d component is built from.
d_majorana_tuple(ladder_operator, fenwick_tree) ==
    <<(<<ladder_operator[1], "Y">>)>>
      \o Tagged(get_remainder_set(fenwick_tree, ladder_operator[1]), "Z")
      \o Tagged(get_update_set(fenwick_tree, ladder_operator[1]), "X")

\* Mutant: the c component takes its Z string from the remainder set.
c_majorana_tuple_remainder(ladder_operator, fenwick_tree) ==
    <<(<<ladder_operator[1], "X">>)>>
      \o Tagged(get_remainder_set(fenwick_tree, ladder_operator[1]), "Z")
      \o Tagged(get_update_set(fenwick_tree, ladder_operator[1]), "X")

\* Mutant: the c component applies Z to the parity set and to the remainder set.
c_majorana_tuple_both(ladder_operator, fenwick_tree) ==
    <<(<<ladder_operator[1], "X">>)>>
      \o Tagged(get_parity_set(fenwick_tree, ladder_operator[1]), "Z")
      \o Tagged(get_remainder_set(fenwick_tree, ladder_operator[1]), "Z")
      \o Tagged(get_update_set(fenwick_tree, ladder_operator[1]), "X")

\* Lines 111-113: the tuple the c component is built from.
c_majorana_tuple(ladder_operator, fenwick_tree) ==
    <<(<<ladder_operator[1], "X">>)>>
      \o Tagged(get_parity_set(fenwick_tree, ladder_operator[1]), "Z")
      \o Tagged(get_update_set(fenwick_tree, ladder_operator[1]), "X")

d_majorana_component(ladder_operator, fenwick_tree) ==
    QubitOperator(d_majorana_tuple(ladder_operator, fenwick_tree),
                  d_coefficient(ladder_operator))

c_majorana_component(ladder_operator, fenwick_tree) ==
    QubitOperator(c_majorana_tuple(ladder_operator, fenwick_tree), CHalf)

_transform_ladder_operator(ladder_operator, fenwick_tree) ==
    QAdd(c_majorana_component(ladder_operator, fenwick_tree),
         d_majorana_component(ladder_operator, fenwick_tree))

(***************************************************************************)
(* The callers' inputs.                                                    *)
(***************************************************************************)
\* The n_qubits argument: None, or an integer.
None == [none |-> TRUE, val |-> 0]
Some(k) == [none |-> FALSE, val |-> k]

\* FermionOperator(term, coefficient), and the sum and the scalar multiple of
\* FermionOperators (a term of coefficient zero stays a term).
FermionOperator(term, coefficient) == [t \in {term} |-> coefficient]

FermionZero == <<>>

FAdd(a, b) ==
    [t \in (DOMAIN a) \cup (DOMAIN b) |->
        CAdd(CoefficientOf(a, t), CoefficientOf(b, t))]

FScale(alpha, a) == [t \in DOMAIN a |-> CMul(alpha, a[t])]

\* Scalar multiple of a QubitOperator.
QScale(alpha, q) == DropZeros([t \in DOMAIN q |-> CMul(alpha, q[t])])

LadderOperators(modes) == (0 .. modes - 1) \X {Lower, Raise}

\* The terms of at most len ladder operators on the given modes.
TermsUpTo(modes, len) ==
    UNION {[1 .. k -> LadderOperators(modes)] : k \in 0 .. len}

ACall(op, n) == [operator |-> op, n_qubits |-> n]

Scenario(cs, a, b) == [calls |-> cs, alpha |-> a, beta |-> b]

\* The n_qubits arguments tried on operators of the given modes: omitted,
\* too small, exact, too large.
Arguments(modes) == {None} \cup {Some(k) : k \in -1 .. modes + 1}

VARIABLES
    harness,       \* the calls the caller makes, and its scalars
    calls,         \* the calls not yet made
    results,       \* the outcome of every finished call
    pc,            \* the position in bravyi_kitaev
    operator,      \* argument: the FermionOperator
    n_qubits,      \* argument and local: the number of qubits
    fenwick_tree,  \* local: the tree of line 45
    pending,       \* the terms the generator of lines 48-53 has not yielded
    seed,          \* inline_sum's running total
    term,          \* the term being transformed
    factors,       \* the ladder operators of term not yet multiplied in
    product,       \* inline_product's running total
    queries        \* the indices the tree was queried for in this call

vars == <<harness, calls, results, pc, operator, n_qubits, fenwick_tree,
          pending, seed, term, factors, product, queries>>

Outcome(raised, value, tree, asked) ==
    [raised |-> raised, value |-> value, tree |-> tree, queries |-> asked]

InitWith(scenarios) ==
    /\ harness \in scenarios
    /\ calls = harness.calls
    /\ results = <<>>
    /\ pc = "idle"
    /\ operator = FermionZero
    /\ n_qubits = None
    /\ fenwick_tree = NoTree
    /\ pending = {}
    /\ seed = QubitOperatorZero
    /\ term = <<>>
    /\ factors = <<>>
    /\ product = QubitOperatorZero
    /\ queries = {}

\* Line 21: the caller calls bravyi_kitaev(operator, n_qubits).
Call ==
    /\ pc = "idle"
    /\ calls # <<>>
    /\ operator' = Head(calls).operator
    /\ n_qubits' = Head(calls).n_qubits
    /\ calls' = Tail(calls)
    /\ fenwick_tree' = NoTree
    /\ pending' = {}
    /\ seed' = QubitOperatorZero
    /\ term' = <<>>
    /\ factors' = <<>>
    /\ product' = QubitOperatorZero
    /\ queries' = {}
    /\ pc' = "infer"
    /\ UNCHANGED <<harness, results>>

\* Mutant: the inferred number of qubits is one too many.
InferredQubitsOneMore(n, op) ==
    IF n.none THEN Some(count_qubits(op) + 1) ELSE n

\* Lines 39-40: an omitted n_qubits becomes count_qubits(operator).
InferredQubits(n, op) == IF n.none THEN Some(count_qubits(op)) ELSE n

InferQubits ==
    /\ pc = "infer"
    /\ n_qubits' = InferredQubits(n_qubits, operator)
    /\ pc' = "check"
    /\ UNCHANGED <<harness, calls, results, operator, fenwick_tree, pending,
                   seed, term, factors, product, queries>>

\* Mutant: the test compares against the highest mode, not the number of modes.
InvalidQubitsHighestMode(n, op) == n.val < count_qubits(op) - 1

\* Line 41: the test that rejects n_qubits.
InvalidQubits(n, op) == n.val < count_qubits(op)

\* Line 42: raise ValueError('Invalid number of qubits specified.')
RejectQubits ==
    /\ pc = "check"
    /\ InvalidQubits(n_qubits, operator)
    /\ results' = Append(results,
                         Outcome("ValueError", QubitOperatorZero,
                                 fenwick_tree, queries))
    /\ pc' = "idle"
    /\ UNCHANGED <<harness, calls, operator, n_qubits, fenwick_tree, pending,
                   seed, term, factors, product, queries>>

\* Mutant: the tree is built for the operator's modes, whatever n_qubits is.
TreeSizeOfOperator(n, op) == count_qubits(op)

\* Line 45: the size the tree is built for.
TreeSize(n, op) == n.val

\* Lines 45-54: the tree is built; the generator and inline_sum's seed are set up.
BuildTree ==
    /\ pc = "check"
    /\ ~InvalidQubits(n_qubits, operator)
    /\ fenwick_tree' = FenwickTree(TreeSize(n_qubits, operator))
    /\ pending' = DOMAIN operator
    /\ seed' = QubitOperatorZero
    /\ pc' = "sum"
    /\ UNCHANGED <<harness, calls, results, operator, n_qubits, term, factors,
                   product, queries>>

\* Line 73: inline_product's seed, the identity scaled by the coefficient.
ProductSeed(coefficient) == QubitOperator(<<>>, coefficient)

\* Lines 127, 49-52, 69-73: inline_sum draws the next term from the generator
\* (in the mapping's iteration order, any order here), which starts
\* _transform_operator_term on it.
NextTerm ==
    /\ pc = "sum"
    /\ \E t \in pending :
          /\ pending' = pending \ {t}
          /\ term' = t
          /\ factors' = t
          /\ product' = ProductSeed(operator[t])
    /\ pc' = "product"
    /\ UNCHANGED <<harness, calls, results, operator, n_qubits, fenwick_tree,
                   seed, queries>>

\* Mutant: the factor is multiplied on the left of the total.
inline_product_step_left(total, r) == QMul(r, total)

\* Line 141: seed *= r.
inline_product_step(total, r) == QMul(total, r)

\* Lines 140-141, 70: inline_product draws the next ladder operator's transform
\* and multiplies it into the total.  A ladder operator the tree has no node
\* for fails the tree's query.
MulFactor ==
    /\ pc = "product"
    /\ factors # <<>>
    /\ queries' = queries \cup {Head(factors)[1]}
    /\ IF InRange(fenwick_tree, Head(factors)[1])
       THEN /\ product' = inline_product_step(
                              product,
                              _transform_ladder_operator(Head(factors),
                                                         fenwick_tree))
            /\ factors' = Tail(factors)
            /\ pc' = "product"
            /\ UNCHANGED results
       ELSE /\ results' = Append(results,
                                 Outcome("IndexError", QubitOperatorZero,
                                         fenwick_tree, queries'))
            /\ pc' = "idle"
            /\ UNCHANGED <<product, factors>>
    /\ UNCHANGED <<harness, calls, operator, n_qubits, fenwick_tree, pending,
                   seed, term>>

\* Mutant: the summand is assigned to the total, not added to it.
inline_sum_step_assign(total, r) == r

\* Line 128: seed += r.
inline_sum_step(total, r) == QAdd(total, r)

\* Lines 142, 74, 128: inline_product returns the term's transform, which
\* inline_sum adds into its total.
AddTerm ==
    /\ pc = "product"
    /\ factors = <<>>
    /\ seed' = inline_sum_step(seed, product)
    /\ pc' = "sum"
    /\ UNCHANGED <<harness, calls, results, operator, n_qubits, fenwick_tree,
                   pending, term, factors, product, queries>>

\* Lines 129, 54: the total is returned.
Return ==
    /\ pc = "sum"
    /\ pending = {}
    /\ results' = Append(results, Outcome("no", seed, fenwick_tree, queries))
    /\ pc' = "idle"
    /\ UNCHANGED <<harness, calls, operator, n_qubits, fenwick_tree, pending,
                   seed, term, factors, product, queries>>

Next ==
    \/ Call
    \/ InferQubits
    \/ RejectQubits
    \/ BuildTree
    \/ NextTerm
    \/ MulFactor
    \/ AddTerm
    \/ Return

(***************************************************************************)
(* The checked inputs.                                                     *)
(***************************************************************************)
Coefficients == {Complex(1, 0), Complex(0, 1)}

\* Operators of one term, of the zero operator, and of two short terms.
SingleTermOperators ==
    {FermionOperator(t, c) : t \in TermsUpTo(MaxModes, MaxTermLen),
                             c \in Coefficients}

TwoTermOperators ==
    {FAdd(FermionOperator(t, Complex(1, 0)), FermionOperator(u, Complex(0, 1))) :
        t \in TermsUpTo(MaxModes, 1), u \in TermsUpTo(MaxModes, 1) \ {<<>>}}

Operators == SingleTermOperators \cup TwoTermOperators \cup {FermionZero}

\* Every operator is transformed twice: with n_qubits omitted, then with
\* an n_qubits of the caller's.
Scenarios ==
    {Scenario(<<ACall(op, None), ACall(op, n)>>, COne, COne) :
        op \in Operators, n \in Arguments(MaxModes)}

Init == InitWith(Scenarios)

Spec == Init /\ [][Next]_vars

\* One ladder operator, transformed on trees of every size up to MaxTree.
LadderScenarios ==
    {Scenario(<<ACall(FermionOperator(<<lo>>, COne), n)>>, COne, COne) :
        lo \in LadderOperators(MaxTree), n \in Arguments(MaxTree)}

SpecLadder == InitWith(LadderScenarios) /\ [][Next]_vars

\* a.b + b.a for two ladder operators a and b.
Anticommutator(a, b) ==
    FAdd(FermionOperator(<<a, b>>, COne), FermionOperator(<<b, a>>, COne))

AnticommutatorScenarios ==
    {Scenario(<<ACall(Anticommutator(a, b), n)>>, COne, COne) :
        a \in LadderOperators(MaxTree), b \in LadderOperators(MaxTree),
        n \in Arguments(MaxTree)}

SpecCAR == InitWith(AnticommutatorScenarios) /\ [][Next]_vars

\* The number operator of mode j: raising, then lowering.
NumberOperator(j) == FermionOperator(<<(<<j, Raise>>), (<<j, Lower>>)>>, COne)

NumberQubits == {1, 2, 4}

NumberScenarios ==
    {Scenario(<<ACall(NumberOperator(j), n)>>, COne, COne) :
        j \in 0 .. 3, n \in Arguments(4)}

SpecNumber == InitWith(NumberScenarios) /\ [][Next]_vars

\* alpha.A + beta.B, A and B are transformed with the same n_qubits.  A and B
\* are operators of one term, or of a term and its reverse; B shares a term
\* with A, holds one reversed, or holds short terms only.
LinTerms == TermsUpTo(LinModes, MaxTermLen)

Reversed(t) == [k \in 1 .. Len(t) |-> t[Len(t) + 1 - k]]

LinOperators ==
    {FermionOperator(t, COne) : t \in LinTerms}
      \cup {FAdd(FermionOperator(t, COne), FermionOperator(Reversed(t), CI)) :
               t \in {u \in LinTerms : Reversed(u) # u}}

Shares(A, B) ==
    \E t \in DOMAIN A : t \in DOMAIN B \/ Reversed(t) \in DOMAIN B

Short(B) == \A t \in DOMAIN B : Len(t) <= 1

LinScalars ==
    {<<Complex(1, 0), Complex(-1, 0)>>, <<Complex(2, 0), Complex(0, 1)>>}

LinScenarios ==
    {Scenario(<<ACall(FAdd(FScale(ab[1], AB[1]), FScale(ab[2], AB[2])), n),
                ACall(AB[1], n),
                ACall(AB[2], n)>>, ab[1], ab[2]) :
        AB \in {P \in LinOperators \X LinOperators :
                   Shares(P[1], P[2]) \/ Short(P[2])},
        ab \in LinScalars,
        n \in {Some(k) : k \in LinModes - 1 .. LinModes + 1}}

SpecLin == InitWith(LinScenarios) /\ [][Next]_vars

(***************************************************************************)
(* Properties of a call of bravyi_kitaev.                                  *)
(***************************************************************************)
\* The call in progress, as an index into harness.calls.
CurrentCall == Len(results) + 1

InProgress == pc # "idle"

TooFew(c) ==
    /\ ~harness.calls[c].n_qubits.none
    /\ harness.calls[c].n_qubits.val < count_qubits(harness.calls[c].operator)

\* C1: a call with an explicit n_qubits below count_qubits(operator) ends with
\* the ValueError, and it does so before the tree is built and before any
\* ladder operator is transformed: it never leaves lines 39-42, its outcome
\* carries no tree, no tree query and no qubit operator.
C1_Rejection ==
    /\ \A c \in 1 .. Len(results) :
          TooFew(c) =>
              /\ results[c].raised = "ValueError"
              /\ results[c].tree = NoTree
              /\ results[c].queries = {}
              /\ results[c].value = QubitOperatorZero
    /\ (InProgress /\ TooFew(CurrentCall)) =>
          /\ pc \in {"infer", "check"}
          /\ fenwick_tree = NoTree
          /\ queries = {}
          /\ seed = QubitOperatorZero

C1_Witness ==
    /\ Len(results) = 2
    /\ TooFew(2)
    /\ harness.calls[2].n_qubits.val = count_qubits(harness.calls[2].operator) - 1
    /\ harness.calls[2].n_qubits.val > 0
    /\ results[2].raised = "ValueError"

\* C2: the call with n_qubits omitted returns, and returns the qubit operator
\* (the same Pauli terms with the same coefficients) that the call with
\* n_qubits = count_qubits(operator) returns; neither raises.
C2_Inference ==
    /\ \A c \in 1 .. Len(results) :
          harness.calls[c].n_qubits.none => results[c].raised = "no"
    /\ (/\ Len(results) = 2
        /\ harness.calls[1].n_qubits.none
        /\ harness.calls[2].operator = harness.calls[1].operator
        /\ harness.calls[2].n_qubits =
               Some(count_qubits(harness.calls[1].operator)))
          => /\ results[2].raised = "no"
             /\ results[2].value = results[1].value

C2_Witness ==
    /\ Len(results) = 2
    /\ harness.calls[1].n_qubits.none
    /\ harness.calls[2].n_qubits = Some(count_qubits(harness.calls[1].operator))
    /\ results[1].raised = "no"
    /\ Cardinality(DOMAIN results[1].value) >= 4
    /\ results[2].value = results[1].value

\* (c.I).t(o_1). ... .t(o_k), each factor multiplied on the right.
RECURSIVE OrderedProduct(_, _, _)
OrderedProduct(c, ops, tree) ==
    IF ops = <<>> THEN QubitOperator(<<>>, c)
    ELSE QMul(OrderedProduct(c, SubSeq(ops, 1, Len(ops) - 1), tree),
              _transform_ladder_operator(ops[Len(ops)], tree))

Consumed == Len(term) - Len(factors)

\* C9: while a term is transformed, the running product is the identity scaled
\* by the term's coefficient times the transforms of the ladder operators
\* consumed so far, in the term's order, and the ladder operators left are the
\* rest of the term in its order; so the contribution of a term (the product
\* when none is left) is the ordered product over the whole term, and that of
\* the empty term is the identity with the term's coefficient.
C9_OrderedProduct ==
    pc = "product" =>
        /\ Consumed \in 0 .. Len(term)
        /\ factors = SubSeq(term, Consumed + 1, Len(term))
        /\ product = OrderedProduct(operator[term], SubSeq(term, 1, Consumed),
                                    fenwick_tree)
        /\ (term = <<>> =>
               product = [t \in {<<>>} |-> operator[term]])

\* A term of two ladder operators whose product depends on their order.
C9_Witness ==
    /\ pc = "product"
    /\ factors = <<>>
    /\ Len(term) = 2
    /\ product # QubitOperatorZero
    /\ product # OrderedProduct(operator[term], <<term[2], term[1]>>,
                                fenwick_tree)

\* The qubit indices of the Pauli terms of a qubit operator.
QubitsOf(q) == UNION {{t[k][1] : k \in DOMAIN t} : t \in DOMAIN q}

ResolvedQubits(c) ==
    IF harness.calls[c].n_qubits.none
    THEN count_qubits(harness.calls[c].operator)
    ELSE harness.calls[c].n_qubits.val

\* C10: a call whose n_qubits is omitted, or is at least count_qubits(operator),
\* returns; its tree is the tree of n_qubits (of count_qubits(operator) when
\* omitted); every index it queried the tree for, and every qubit index of its
\* result, is in [0, n_qubits); no call ends with the tree's out-of-range error.
C10_InRange ==
    /\ \A c \in 1 .. Len(results) :
          /\ results[c].raised # "IndexError"
          /\ ~TooFew(c) =>
                /\ results[c].raised = "no"
                /\ results[c].tree = FenwickTree(ResolvedQubits(c))
                /\ results[c].queries \subseteq 0 .. ResolvedQubits(c) - 1
                /\ QubitsOf(results[c].value) \subseteq 0 .. ResolvedQubits(c) - 1
    /\ pc \in {"sum", "product"} =>
          /\ fenwick_tree = FenwickTree(ResolvedQubits(CurrentCall))
          /\ queries \subseteq 0 .. ResolvedQubits(CurrentCall) - 1
          /\ QubitsOf(seed) \cup QubitsOf(product)
                \subseteq 0 .. ResolvedQubits(CurrentCall) - 1

\* n_qubits above count_qubits(operator): the result reaches a qubit the
\* operator has no mode for.
C10_Witness ==
    /\ Len(results) = 2
    /\ ~harness.calls[2].n_qubits.none
    /\ harness.calls[2].n_qubits.val > count_qubits(harness.calls[2].operator)
    /\ results[2].raised = "no"
    /\ results[2].queries # {}
    /\ \E q \in QubitsOf(results[2].value) :
          q >= count_qubits(harness.calls[2].operator)

(***************************************************************************)
(* Properties of the transform of one ladder operator.                     *)
(***************************************************************************)
SetOf(seq) == {seq[k] : k \in DOMAIN seq}

\* A Pauli term as the set of its <<qubit, letter>> pairs.
PairsOf(t) == SetOf(t)

\* No qubit index occurs twice in a tuple of <<qubit, letter>> pairs.
DistinctQubits(t) ==
    \A k \in DOMAIN t : \A l \in DOMAIN t : t[k][1] = t[l][1] => k = l

DistinctEntries(seq) ==
    \A k \in DOMAIN seq : \A l \in DOMAIN seq : seq[k] = seq[l] => k = l

\* The call was given the one-term operator of one ladder operator,
\* coefficient 1, and has returned.
LadderCallDone(c) ==
    /\ c <= Len(results)
    /\ results[c].raised = "no"
    /\ \E lo \in LadderOperators(MaxTree) :
          harness.calls[c].operator = FermionOperator(<<lo>>, COne)

TheLadder(c) ==
    CHOOSE lo \in LadderOperators(MaxTree) :
        harness.calls[c].operator = FermionOperator(<<lo>>, COne)

CSet(i, tree) ==
    {<<i, "X">>} \cup {<<p, "Z">> : p \in SetOf(get_parity_set(tree, i))}
                 \cup {<<u, "X">> : u \in SetOf(get_update_set(tree, i))}

DSet(i, tree) ==
    {<<i, "Y">>} \cup {<<r, "Z">> : r \in SetOf(get_remainder_set(tree, i))}
                 \cup {<<u, "X">> : u \in SetOf(get_update_set(tree, i))}

\* C3: the transform of one ladder operator <<i, action>> on a tree of any
\* size has exactly two Pauli terms: X on i, Z on the parity set of i and X on
\* the update set of i, with coefficient 0.5; and Y on i, Z on the remainder
\* set of i and X on the update set of i, with coefficient 0.5i for a lowering
\* and -0.5i for a raising operator.
C3_TwoComponents ==
    \A c \in 1 .. Len(harness.calls) :
        LadderCallDone(c) =>
            LET i == TheLadder(c)[1]
                action == TheLadder(c)[2]
                tree == results[c].tree
                value == results[c].value
            IN  /\ Cardinality(DOMAIN value) = 2
                /\ \E tc \in DOMAIN value : \E td \in DOMAIN value :
                      /\ tc # td
                      /\ DistinctQubits(tc)
                      /\ PairsOf(tc) = CSet(i, tree)
                      /\ value[tc] = <<Scale \div 2, 0>>
                      /\ DistinctQubits(td)
                      /\ PairsOf(td) = DSet(i, tree)
                      /\ value[td] = IF action = Lower
                                     THEN <<0, Scale \div 2>>
                                     ELSE <<0, -(Scale \div 2)>>

\* A raising operator whose three sets are all nonempty.
C3_Witness ==
    /\ LadderCallDone(1)
    /\ TheLadder(1)[2] = Raise
    /\ get_parity_set(results[1].tree, TheLadder(1)[1]) # <<>>
    /\ get_update_set(results[1].tree, TheLadder(1)[1]) # <<>>
    /\ get_remainder_set(results[1].tree, TheLadder(1)[1]) # <<>>
    /\ get_remainder_set(results[1].tree, TheLadder(1)[1])
          # get_parity_set(results[1].tree, TheLadder(1)[1])

\* The call transformed the lowering operator of mode 1 on two qubits.
TwoModeCallDone ==
    /\ LadderCallDone(1)
    /\ TheLadder(1) = <<1, Lower>>
    /\ harness.calls[1].n_qubits \in {None, Some(2)}

\* C6: with two qubits the parity set of index 1 is {0}, its update set and
\* its remainder set are empty, and the lowering operator of mode 1 transforms
\* to exactly 0.5 X1 Z0 + 0.5i Y1.
C6_TwoModeExample ==
    TwoModeCallDone =>
        /\ results[1].tree.n = 2
        /\ get_parity_set(results[1].tree, 1) = <<0>>
        /\ get_update_set(results[1].tree, 1) = <<>>
        /\ get_remainder_set(results[1].tree, 1) = <<>>
        /\ DOMAIN results[1].value =
               {<<(<<0, "Z">>), (<<1, "X">>)>>, <<(<<1, "Y">>)>>}
        /\ results[1].value[<<(<<0, "Z">>), (<<1, "X">>)>>] = <<Scale \div 2, 0>>
        /\ results[1].value[<<(<<1, "Y">>)>>] = <<0, Scale \div 2>>

C6_Witness ==
    /\ TwoModeCallDone
    /\ harness.calls[1].n_qubits = Some(2)
    /\ Cardinality(DOMAIN results[1].value) = 2

\* C7: on a tree of any size and for every index i of it, no qubit index
\* occurs twice in the tuple either majorana component is built from: i is in
\* none of its parity, update and remainder sets, the parity set and the
\* remainder set are each disjoint from the update set, and no set lists an
\* index twice.
C7_NoCollision ==
    fenwick_tree # NoTree =>
        \A i \in 0 .. fenwick_tree.n - 1 :
            LET P == get_parity_set(fenwick_tree, i)
                U == get_update_set(fenwick_tree, i)
                R == get_remainder_set(fenwick_tree, i)
            IN  /\ i \notin SetOf(P) \cup SetOf(U) \cup SetOf(R)
                /\ SetOf(P) \cap SetOf(U) = {}
                /\ SetOf(R) \cap SetOf(U) = {}
                /\ DistinctEntries(P) /\ DistinctEntries(U) /\ DistinctEntries(R)
                /\ \A action \in {Lower, Raise} :
                      /\ DistinctQubits(c_majorana_tuple(<<i, action>>, fenwick_tree))
                      /\ DistinctQubits(d_majorana_tuple(<<i, action>>, fenwick_tree))

\* A tree with an index whose three sets are all nonempty, after the ladder
\* operator of that index was transformed.
C7_Witness ==
    /\ fenwick_tree # NoTree
    /\ \E i \in queries :
          /\ Len(get_parity_set(fenwick_tree, i)) >= 2
          /\ get_update_set(fenwick_tree, i) # <<>>
          /\ get_remainder_set(fenwick_tree, i) # <<>>

(***************************************************************************)
(* Algebraic properties of the transform.                                  *)
(***************************************************************************)
\* Two qubit operators with the same coefficient on every Pauli term.
QEqual(a, b) ==
    \A t \in (DOMAIN a) \cup (DOMAIN b) : CoefficientOf(a, t) = CoefficientOf(b, t)

Identity == [t \in {<<>>} |-> <<Scale, 0>>]

AnticommutatorCallDone(a, b) ==
    /\ Len(results) = 1
    /\ results[1].raised = "no"
    /\ harness.calls[1].operator = Anticommutator(a, b)

\* C4: for every n_qubits and all modes i, j below it, the transform of
\* a_i a_j^ + a_j^ a_i is the identity with coefficient 1 when i = j and the
\* zero operator otherwise, and the transforms of a_i a_j + a_j a_i and of
\* a_i^ a_j^ + a_j^ a_i^ are the zero operator.
C4_Anticommutation ==
    \A a \in LadderOperators(MaxTree) : \A b \in LadderOperators(MaxTree) :
        AnticommutatorCallDone(a, b) =>
            QEqual(results[1].value,
                   IF a[1] = b[1] /\ a[2] # b[2] THEN Identity
                   ELSE QubitOperatorZero)

\* Two different modes of a tree of at least five qubits, one raised and one
\* lowered, the parity set of one holding the other.
C4_Witness ==
    \E a \in LadderOperators(MaxTree) : \E b \in LadderOperators(MaxTree) :
        /\ AnticommutatorCallDone(a, b)
        /\ a[1] # b[1]
        /\ a[2] # b[2]
        /\ results[1].tree.n >= 5
        /\ a[1] \in SetOf(get_parity_set(results[1].tree, b[1]))
        /\ results[1].value = QubitOperatorZero

NumberCallDone(j) ==
    /\ Len(results) = 1
    /\ results[1].raised = "no"
    /\ harness.calls[1].operator = NumberOperator(j)
    /\ results[1].tree.n \in NumberQubits

\* C8: on 1, 2 and 4 qubits the transform of the number operator of every
\* mode j is exactly two terms: the identity with coefficient 0.5, and a
\* product of Z operators only, on a set of qubits that holds j, with
\* coefficient -0.5.
C8_NumberOperator ==
    \A j \in 0 .. 3 :
        NumberCallDone(j) =>
            LET value == results[1].value
            IN  /\ Cardinality(DOMAIN value) = 2
                /\ <<>> \in DOMAIN value
                /\ value[<<>>] = <<Scale \div 2, 0>>
                /\ \A t \in DOMAIN value \ {<<>>} :
                      /\ value[t] = <<-(Scale \div 2), 0>>
                      /\ DistinctQubits(t)
                      /\ \A k \in DOMAIN t : t[k][2] = "Z"
                      /\ <<j, "Z">> \in PairsOf(t)

\* Four qubits, and a Z string over more than the mode itself.
C8_Witness ==
    \E j \in 0 .. 3 :
        /\ NumberCallDone(j)
        /\ results[1].tree.n = 4
        /\ \E t \in DOMAIN results[1].value : Len(t) >= 3

AllReturned ==
    /\ Len(results) = 3
    /\ \A c \in 1 .. 3 : results[c].raised = "no"

\* C5: with one n_qubits that is at least count_qubits of A and of B, the three
\* calls return and the transform of alpha.A + beta.B is alpha times the
\* transform of A plus beta times the transform of B, also when A and B share
\* a term and when Pauli terms of the two transforms merge or cancel.
C5_Linearity ==
    /\ (/\ Len(results) = 3
        /\ \A c \in 2 .. 3 :
              harness.calls[c].n_qubits.val
                  >= count_qubits(harness.calls[c].operator))
          => AllReturned
    /\ AllReturned =>
          QEqual(results[1].value,
                 QAdd(QScale(harness.alpha, results[2].value),
                      QScale(harness.beta, results[3].value)))

\* Two different terms whose transforms share a Pauli term that cancels in
\* the sum, while another survives.
C5_Witness ==
    /\ AllReturned
    /\ harness.calls[2].operator # harness.calls[3].operator
    /\ results[1].value # QubitOperatorZero
    /\ \E t \in (DOMAIN results[2].value) \cap (DOMAIN results[3].value) :
          t \notin DOMAIN results[1].value
    /\ \E t \in (DOMAIN results[2].value) \cap (DOMAIN results[3].value) :
          t \in DOMAIN results[1].value
====
